---- MODULE Spec2Model ----
(***************************************************************************)
(* ExecOps proposal lifecycle: the ActionProposal and Event tables and the *)
(* route handlers that write them (create proposal, approve, reject,       *)
(* ingest event).  Each handler is split at the awaits that touch the      *)
(* database or the AI service, since concurrent requests interleave there. *)
(***************************************************************************)
EXTENDS Integers, Sequences, FiniteSets, TLC

\* ---------------------------------------------------------------- bounds
MaxProposals == 2
MaxRequests == 2
MaxEvents == 3
MaxLines == 5

\* minutes of the duplicate-suppression window
SuppressionWindow == 5

\* ------------------------------------------------------- nullable columns
\* A nullable column holds <<>> (SQL NULL) or <<v>>.
Null == <<>>
Some(v) == <<v>>

\* ------------------------------------------------------------ input sets
\* "" stands for a field that is absent or empty in the request body (falsy).
ActionTypes == {"email", "command"}
Verticals == {"release", "customer_fire", "runway", "team_pulse"}
Urgencies == {"critical", "high", "medium", "low"}
NaturalKeys == {"acme_5000", "globex_120", "initech_75"}
EventTypes == {"", "stripe.invoice"}
ApproverIds == {"", "alice"}
Reasons == {"", "false positive"}
Sources == {"", "stripe", "Stripe", "github"}
ExternalIds == {"", "evt_1", "evt_2"}
RequestIds == 1..MaxRequests
ProposalIds == 1..MaxProposals

\* ------------------------------------------------------------------ state
VARIABLES
    proposals,     \* ActionProposal table: sequence of rows, id = index
    now,           \* clock read by new Date() and CURRENT_TIMESTAMP
    requests,      \* approve / reject requests: function RequestIds -> record
    executeCalls,  \* POST /execute_action calls issued, in order
    createStatus,  \* HTTP status of the last POST /api/actions response
    events,        \* Event table: sequence of rows
    ingestStatus,  \* HTTP status of the last event ingestion response
    auditLog,      \* AuditLog table: sequence of rows
    routed,        \* last call of route_to_vertical: argument and result
    run,           \* the AI service: pipeline run in progress, _RECENT_INVOICES
    listing,       \* last GET /api/actions response and the Inbox's sorted list
    aiFetch,       \* the create handler's fetch of /process_event: made, answer
    call           \* last direct call of a function: name, argument, result

vars == <<proposals, now, requests, executeCalls, createStatus, events, ingestStatus,
          auditLog, routed, run, listing, aiFetch, call>>

\* x || d of JavaScript for string inputs
OrDefault(x, d) == IF x = "" THEN d ELSE x

\* String.prototype.toLowerCase on the source names used here
ToLowerCase(s) == IF s = "Stripe" THEN "stripe" ELSE s

IdleRequest ==
    [kind |-> "none", id |-> 0, approver_id |-> "", rejection_reason |-> "",
     pc |-> "idle", proposal |-> Null, status |-> 0]

\* nothing listed yet: the last GET /api/actions response, and the Inbox
\* component's proposals state, filter selections and displayed list
IdleListing ==
    [response |-> <<>>, inbox |-> <<>>, selectedVertical |-> "all",
     selectedStatus |-> "all", sorted |-> <<>>]

\* the create handler has not called the AI service
NoFetch == [called |-> FALSE, result |-> Null]

\* no pipeline run in progress; recent is _RECENT_INVOICES
IdleRun(recent) ==
    [pc |-> "idle", http |-> 0, event_type |-> "", request_urgency |-> "",
     state |-> Null, visited |-> <<>>, recent |-> recent]

\* no function has been called directly
NoCall == [fn |-> "", arg |-> Null, result |-> Null]

Init ==
    /\ proposals = <<>>
    /\ now = 1
    /\ requests = [r \in RequestIds |-> IdleRequest]
    /\ executeCalls = <<>>
    /\ createStatus = 0
    /\ events = <<>>
    /\ ingestStatus = 0
    /\ auditLog = <<>>
    /\ routed = [arg |-> Null, vertical |-> ""]
    /\ run = IdleRun({})
    /\ listing = IdleListing
    /\ aiFetch = NoFetch
    /\ call = NoCall

\* ------------------------------------------------- POST /api/actions
\* c || 0.8 of JavaScript; confidences are in hundredths
ConfidenceOrDefault(c) == IF c = 0 THEN 80 ELSE c

\* variant of StoredStatus that copies the status returned by the pipeline
StoredStatusFromPipeline(aiResult) == aiResult.status

\* the status the create handler writes
StoredStatus(aiResult) == "pending"

\* aiOk: the AI service answered with res.ok.  aiResult is the JSON it
\* returned; a field that the JSON lacks is "" (0 for confidence).  The
\* payload carries the natural key of the occurrence.  Prisma refuses a
\* create whose required column has no value, and the handler's catch turns
\* that into the 500 response.
CreateProposal(event_type, event_context, urgency, aiOk, aiResult) ==
    /\ Len(proposals) < MaxProposals
    /\ UNCHANGED <<requests, executeCalls, events, ingestStatus, auditLog, routed, listing, call>>
    /\ IF event_type = ""
       THEN /\ createStatus' = 400
            /\ aiFetch' = NoFetch
            /\ UNCHANGED <<proposals, now>>
       ELSE IF ~aiOk
       THEN /\ createStatus' = 500
            /\ aiFetch' = [called |-> TRUE, result |-> Null]
            /\ UNCHANGED <<proposals, now>>
       ELSE IF \/ aiResult.vertical = ""
               \/ aiResult.action_type = ""
               \/ aiResult.reasoning = ""
               \/ aiResult.context_summary = ""
       THEN /\ createStatus' = 500
            /\ aiFetch' = [called |-> TRUE, result |-> Some(aiResult)]
            /\ UNCHANGED <<proposals, now>>
       ELSE /\ aiFetch' = [called |-> TRUE, result |-> Some(aiResult)]
            /\ proposals' = Append(proposals,
                   [status |-> StoredStatus(aiResult),
                    urgency |-> OrDefault(aiResult.urgency, OrDefault(urgency, "low")),
                    vertical |-> aiResult.vertical,
                    action_type |-> aiResult.action_type,
                    payload |-> aiResult.payload,
                    confidence |-> ConfidenceOrDefault(aiResult.confidence),
                    created_at |-> now,
                    approved_at |-> Null,
                    executed_at |-> Null,
                    approver_id |-> Null,
                    rejection_reason |-> Null])
            /\ now' = now + 1
            /\ createStatus' = 201

\* ------------------------------------------------- approve / reject
\* variant of the guard that refuses only rejected rows
CanDecideLoose(status) == status # "rejected"

\* the guard both handlers apply to the row they read
CanDecide(status) == status = "pending" \/ status = "pending_approval"

Respond(r, kind, id, code) ==
    requests' = [requests EXCEPT ![r] =
        [IdleRequest EXCEPT !.kind = kind, !.id = id, !.pc = "done", !.status = code]]

\* request slots are taken in order
Arrives(r) ==
    /\ requests[r].pc = "idle"
    /\ \A q \in RequestIds : q < r => requests[q].pc # "idle"

\* variant of ApproveFind that goes on to the execution call before the update
ApproveFindExecuteFirst(r, id, body, approver_id) ==
    /\ Arrives(r)
    /\ UNCHANGED <<proposals, now, executeCalls, createStatus, events, ingestStatus, auditLog, routed, run, listing, aiFetch, call>>
    /\ IF id > Len(proposals)
       THEN Respond(r, "approve", id, 404)
       ELSE IF ~CanDecide(proposals[id].status)
       THEN Respond(r, "approve", id, 400)
       ELSE requests' = [requests EXCEPT ![r] =
                [IdleRequest EXCEPT !.kind = "approve", !.id = id,
                                    !.approver_id = IF body THEN approver_id ELSE "",
                                    !.pc = "execute",
                                    !.proposal = Some(proposals[id])]]

\* approve: request arrives (a missing body parses as {}), findUnique, then
\* the not-found and status checks
ApproveFind(r, id, body, approver_id) ==
    /\ Arrives(r)
    /\ UNCHANGED <<proposals, now, executeCalls, createStatus, events, ingestStatus, auditLog, routed, run, listing, aiFetch, call>>
    /\ IF id > Len(proposals)
       THEN Respond(r, "approve", id, 404)
       ELSE IF ~CanDecide(proposals[id].status)
       THEN Respond(r, "approve", id, 400)
       ELSE requests' = [requests EXCEPT ![r] =
                [IdleRequest EXCEPT !.kind = "approve", !.id = id,
                                    !.approver_id = IF body THEN approver_id ELSE "",
                                    !.pc = "update",
                                    !.proposal = Some(proposals[id])]]

\* approve: prisma update, then the auto-executable test on the row read
ApproveUpdate(r) ==
    /\ requests[r].kind = "approve"
    /\ requests[r].pc = "update"
    /\ LET id == requests[r].id IN
       /\ proposals' = [proposals EXCEPT
              ![id].status = "approved",
              ![id].approved_at = Some(now),
              ![id].approver_id = Some(OrDefault(requests[r].approver_id, "founder"))]
       /\ now' = now + 1
       /\ IF requests[r].proposal[1].action_type \in {"email", "webhook"}
          THEN requests' = [requests EXCEPT ![r].pc = "execute"]
          ELSE Respond(r, "approve", id, 200)
    /\ UNCHANGED <<executeCalls, createStatus, events, ingestStatus, auditLog, routed, run, listing, aiFetch, call>>

\* variant of ApproveExecute whose catch block puts the proposal back to
\* pending when the fetch throws
ApproveExecuteRevert(r, threw) ==
    /\ requests[r].kind = "approve"
    /\ requests[r].pc = "execute"
    /\ executeCalls' = Append(executeCalls,
           [proposal_id |-> requests[r].id,
            action_type |-> requests[r].proposal[1].action_type,
            idempotency_key |-> Null,
            threw |-> threw])
    /\ proposals' = IF threw
                    THEN [proposals EXCEPT ![requests[r].id].status = "pending",
                                           ![requests[r].id].approved_at = Null]
                    ELSE proposals
    /\ Respond(r, "approve", requests[r].id, 200)
    /\ UNCHANGED <<now, createStatus, events, ingestStatus, auditLog, routed, run, listing, aiFetch, call>>

\* approve: fetch /execute_action with body {proposal_id, action_type,
\* payload} (the body carries no idempotency key); a thrown fetch is caught
\* and logged
ApproveExecute(r, threw) ==
    /\ requests[r].kind = "approve"
    /\ requests[r].pc = "execute"
    /\ executeCalls' = Append(executeCalls,
           [proposal_id |-> requests[r].id,
            action_type |-> requests[r].proposal[1].action_type,
            idempotency_key |-> Null,
            threw |-> threw])
    /\ Respond(r, "approve", requests[r].id, 200)
    /\ UNCHANGED <<proposals, now, createStatus, events, ingestStatus, auditLog, routed, run, listing, aiFetch, call>>

\* variant of RejectFind without the status check
RejectFindNoCheck(r, id, body, rejection_reason, approver_id) ==
    /\ Arrives(r)
    /\ UNCHANGED <<proposals, now, executeCalls, createStatus, events, ingestStatus, auditLog, routed, run, listing, aiFetch, call>>
    /\ IF ~body
       THEN Respond(r, "reject", id, 500)
       ELSE IF id > Len(proposals)
       THEN Respond(r, "reject", id, 404)
       ELSE requests' = [requests EXCEPT ![r] =
                [IdleRequest EXCEPT !.kind = "reject", !.id = id,
                                    !.approver_id = approver_id,
                                    !.rejection_reason = rejection_reason,
                                    !.pc = "update",
                                    !.proposal = Some(proposals[id])]]

\* reject: request arrives, req.json() (throws without a body), findUnique,
\* then the not-found and status checks
RejectFind(r, id, body, rejection_reason, approver_id) ==
    /\ Arrives(r)
    /\ UNCHANGED <<proposals, now, executeCalls, createStatus, events, ingestStatus, auditLog, routed, run, listing, aiFetch, call>>
    /\ IF ~body
       THEN Respond(r, "reject", id, 500)
       ELSE IF id > Len(proposals)
       THEN Respond(r, "reject", id, 404)
       ELSE IF ~CanDecide(proposals[id].status)
       THEN Respond(r, "reject", id, 400)
       ELSE requests' = [requests EXCEPT ![r] =
                [IdleRequest EXCEPT !.kind = "reject", !.id = id,
                                    !.approver_id = approver_id,
                                    !.rejection_reason = rejection_reason,
                                    !.pc = "update",
                                    !.proposal = Some(proposals[id])]]

\* reject: prisma update
RejectUpdate(r) ==
    /\ requests[r].kind = "reject"
    /\ requests[r].pc = "update"
    /\ LET id == requests[r].id IN
       proposals' = [proposals EXCEPT
              ![id].status = "rejected",
              ![id].rejection_reason =
                  Some(OrDefault(requests[r].rejection_reason, "No reason provided")),
              ![id].approver_id = Some(OrDefault(requests[r].approver_id, "founder"))]
    /\ Respond(r, "reject", requests[r].id, 200)
    /\ UNCHANGED <<now, executeCalls, createStatus, events, ingestStatus, auditLog, routed, run, listing, aiFetch, call>>

\* a complete answer of the AI service for one occurrence
AiResult(vertical, action_type) ==
    [vertical |-> vertical, action_type |-> action_type, payload |-> "acme_5000",
     reasoning |-> "Invoice requires review", context_summary |-> "invoice from acme",
     confidence |-> 70, urgency |-> "", status |-> "pending_approval"]

\* The approval gateway runs over proposals of one occurrence; every input
\* of the create handler is exercised under SpecCreate below.
Next ==
    \/ \E a \in ActionTypes :
          /\ CreateProposal("stripe.invoice", "acme_5000", "", TRUE, AiResult("runway", a))
          /\ UNCHANGED run
    \/ \E r \in RequestIds, id \in ProposalIds, b \in BOOLEAN, ap \in ApproverIds :
          ApproveFind(r, id, b, ap)
    \/ \E r \in RequestIds : ApproveUpdate(r)
    \/ \E r \in RequestIds, threw \in BOOLEAN : ApproveExecute(r, threw)
    \/ \E r \in RequestIds, id \in ProposalIds, b \in BOOLEAN,
          rr \in Reasons, ap \in ApproverIds : RejectFind(r, id, b, rr, ap)
    \/ \E r \in RequestIds : RejectUpdate(r)

Spec == Init /\ [][Next]_vars

\* every enabled handler step is eventually taken
SpecFair == Spec /\ WF_vars(Next)

\* the propose path alone, over all its inputs
AiResults ==
    {AiResult("runway", "email"),
     [AiResult("runway", "command") EXCEPT !.payload = "globex_120", !.confidence = 90,
                                           !.urgency = "high"],
     [AiResult("team_pulse", "email") EXCEPT !.confidence = 0, !.status = "action_drafted"],
     [AiResult("release", "command") EXCEPT !.payload = "initech_75", !.status = "approved",
                                            !.urgency = "critical"],
     [AiResult("customer_fire", "command") EXCEPT !.confidence = 85],
     [AiResult("customer_fire", "email") EXCEPT !.context_summary = ""]}

NextCreate ==
    \E et \in EventTypes, k \in NaturalKeys, u \in {"", "medium", "critical"},
       ok \in BOOLEAN, ai \in AiResults :
          CreateProposal(et, k, u, ok, ai) /\ UNCHANGED run

SpecCreate == Init /\ [][NextCreate]_vars

\* ------------------------------------------------- POST /api/events
\* variant of Ingest that stores the row before it validates the body
IngestStoreFirst(source, occurred_at, external_id, payload) ==
    /\ Len(events) < MaxEvents
    /\ UNCHANGED <<proposals, now, requests, executeCalls, createStatus, auditLog, routed, run, listing, aiFetch, call>>
    /\ events' = Append(events,
           [source |-> ToLowerCase(source),
            external_id |-> IF external_id = "" THEN Null ELSE Some(external_id)])
    /\ ingestStatus' = IF source = "" \/ ~occurred_at \/ ~payload THEN 400 ELSE 200

Ingest(source, occurred_at, external_id, payload) ==
    /\ Len(events) < MaxEvents
    /\ UNCHANGED <<proposals, now, requests, executeCalls, createStatus, auditLog, routed, run, listing, aiFetch, call>>
    /\ IF source = "" \/ ~occurred_at \/ ~payload
       THEN /\ ingestStatus' = 400
            /\ UNCHANGED events
       ELSE /\ events' = Append(events,
                   [source |-> ToLowerCase(source),
                    external_id |-> IF external_id = "" THEN Null ELSE Some(external_id)])
            /\ ingestStatus' = 200

NextIngest ==
    \E s \in Sources, o \in BOOLEAN, e \in ExternalIds, p \in BOOLEAN : Ingest(s, o, e, p)

SpecIngest == Init /\ [][NextIngest]_vars

\* both intake endpoints side by side
IntakeSources == {"", "stripe"}
IntakeExternalIds == {"", "evt_1"}
IntakeAiResults == {AiResult("runway", "email"), AiResult("release", "command")}

NextIntake ==
    \/ \E s \in IntakeSources, o \in BOOLEAN, e \in IntakeExternalIds, p \in BOOLEAN :
          Ingest(s, o, e, p)
    \/ \E et \in EventTypes, ok \in BOOLEAN, ai \in IntakeAiResults :
          CreateProposal(et, "acme_5000", "", ok, ai) /\ UNCHANGED run

SpecIntake == Init /\ [][NextIntake]_vars

\* ------------------------------------------------- AI service: router
\* dict.get(key, default) of Python
Get(d, key, default) == IF key \in DOMAIN d THEN d[key] ELSE default

\* _EVENT_TO_VERTICAL
EVENT_TO_VERTICAL ==
    [t \in {"sentry.error", "sentry.crash", "github.deploy", "intercom.ticket",
            "zendesk.ticket", "stripe.invoice", "stripe.payment_failed",
            "stripe.chargeback", "github.commit", "github.activity", "linear.issue"} |->
        CASE t \in {"sentry.error", "sentry.crash", "github.deploy"} -> "release"
          [] t \in {"intercom.ticket", "zendesk.ticket"} -> "customer_fire"
          [] t \in {"stripe.invoice", "stripe.payment_failed", "stripe.chargeback"} -> "runway"
          [] OTHER -> "team_pulse"]

\* event types sent to the AI service: the mapped ones, the empty string and
\* one the table does not know
PipelineEventTypes == DOMAIN EVENT_TO_VERTICAL \cup {"", "hubspot.deal"}

\* arguments of route_to_vertical: a string, or a dict with or without the
\* event_type key
StrArg(t) == [isdict |-> FALSE, value |-> t]
DictArg(d) == [isdict |-> TRUE, value |-> d]
RouteArgs ==
    {StrArg(t) : t \in PipelineEventTypes}
    \cup {DictArg([k \in {"event_type"} |-> t]) : t \in PipelineEventTypes}
    \cup {DictArg([k \in {"source"} |-> "stripe"])}

\* variant of route_to_vertical that indexes the dict and the table directly
\* (a KeyError, written "raised", for a missing key)
route_to_vertical_strict(arg) ==
    LET event_type == IF arg.isdict
                      THEN Get(arg.value, "event_type", "raised")
                      ELSE arg.value
    IN Get(EVENT_TO_VERTICAL, event_type, "raised")

route_to_vertical(arg) ==
    LET event_type == IF arg.isdict
                      THEN Get(arg.value, "event_type", "")
                      ELSE arg.value
    IN Get(EVENT_TO_VERTICAL, event_type, "team_pulse")

\* a caller applies route_to_vertical
RouteToVertical(arg) ==
    /\ routed' = [arg |-> Some(arg), vertical |-> route_to_vertical(arg)]
    /\ UNCHANGED <<proposals, now, requests, executeCalls, createStatus, events,
                   ingestStatus, auditLog, run, listing, aiFetch, call>>

\* ------------------------------------------------- AI service: verticals
\* Numbers with a fraction are scaled to integers: confidence in hundredths,
\* churn_score in tenths.  A node returns the state it was given with the
\* keys it names replaced.

\* event contexts: the empty one, the billing scenario, and contexts that
\* supply the fields each vertical reads
PipelineContexts ==
    {<<>>,
     ("amount" :> 5000 @@ "customer_tier" :> "enterprise"),
     ("amount" :> 5000 @@ "vendor" :> "acme" @@ "status" :> "failed"),
     ("amount" :> 120 @@ "vendor" :> "acme" @@ "status" :> "paid"
         @@ "invoice_id" :> "inv_1001"),
     ("error_count" :> 7 @@ "affected_users" :> 150),
     ("error_count" :> 1 @@ "affected_users" :> 0),
     ("customer_tier" :> "enterprise" @@ "mrr" :> 2000 @@ "churn_score" :> 9
         @@ "priority" :> "urgent"),
     ("customer_tier" :> "standard" @@ "mrr" :> 0 @@ "churn_score" :> 0
         @@ "priority" :> "normal"),
     ("activity_count" :> 4 @@ "previous_count" :> 10),
     ("activity_count" :> 7 @@ "previous_count" :> 10),
     ("activity_count" :> 20 @@ "previous_count" :> 10)}

\* "sentry" in event_type
HasSentry(event_type) == event_type \in {"sentry.error", "sentry.crash"}

\* release_hygiene.gather_context_node
ReleaseGatherContext(st) ==
    LET ctx == st.event_context
        affected_users == Get(ctx, "affected_users", 0)
        analysis ==
            IF HasSentry(st.event_type)
            THEN [error_count |-> Get(ctx, "error_count", 1),
                  affected_users |-> affected_users,
                  severity |-> IF affected_users > 100 THEN "critical" ELSE "high",
                  reasoning |-> "Sentry error detected",
                  context_summary |-> "errors affecting users"]
            ELSE [error_count |-> 1,
                  severity |-> "high",
                  reasoning |-> "Release hygiene event detected",
                  context_summary |-> "Analyzing release event"]
    IN [st EXCEPT !.analysis = analysis,
                  !.urgency = IF analysis.severity = "critical" THEN "critical" ELSE "high",
                  !.status = "context_gathered"]

\* release_hygiene.draft_action_node
ReleaseDraftAction(st) ==
    LET action_type ==
            IF HasSentry(st.event_type) /\ st.analysis.error_count >= 5
            THEN "rollback" ELSE "alert_dev"
    IN [st EXCEPT !.draft_action = [action_type |-> action_type,
                                    payload |-> IF HasSentry(st.event_type)
                                                THEN Some(action_type) ELSE Null],
                  !.confidence = IF action_type = "rollback" THEN 75 ELSE 85,
                  !.status = "action_drafted"]

\* customer_fire.gather_context_node
CustomerGatherContext(st) ==
    LET ctx == st.event_context
        customer_tier == Get(ctx, "customer_tier", "standard")
        mrr == Get(ctx, "mrr", 0)
        churn_score == Get(ctx, "churn_score", 0)
        ticket_priority == Get(ctx, "priority", "normal")
        is_vip == \/ customer_tier \in {"enterprise", "premium"}
                  \/ mrr > 1000
                  \/ churn_score > 7
                  \/ ticket_priority \in {"urgent", "emergency"}
    IN [st EXCEPT !.analysis = [is_vip |-> is_vip,
                                customer_tier |-> customer_tier,
                                mrr |-> mrr,
                                churn_score |-> churn_score,
                                reasoning |-> "Customer tier and MRR",
                                context_summary |-> IF is_vip
                                                    THEN "VIP customer issue detected"
                                                    ELSE "Standard customer ticket"],
                  !.urgency = IF is_vip THEN "critical" ELSE "high",
                  !.status = "context_gathered"]

\* customer_fire.draft_action_node
CustomerDraftAction(st) ==
    LET action_type ==
            IF st.analysis.is_vip
            THEN (IF st.analysis.customer_tier = "enterprise"
                  THEN "senior_assign" ELSE "apology_email")
            ELSE "standard_response"
    IN [st EXCEPT !.draft_action = [action_type |-> action_type,
                                    payload |-> Some(action_type)],
                  !.confidence = IF st.analysis.is_vip THEN 90 ELSE 70,
                  !.status = "action_drafted"]

\* the invoice id runway's gather_context tracks: the given invoice_id, or
\* vendor and amount joined; vendor_part is the vendor name the id contains
InvoiceId(ctx) ==
    IF "invoice_id" \in DOMAIN ctx
    THEN [id |-> <<ctx["invoice_id"]>>, vendor_part |-> ""]
    ELSE [id |-> <<Get(ctx, "vendor", "unknown"), Get(ctx, "amount", 0)>>,
          vendor_part |-> Get(ctx, "vendor", "unknown")]

\* get_recent_invoices: the tracked ids that contain the vendor (every run of
\* the model falls inside the five-minute window)
get_recent_invoices(recent, vendor) == {inv \in recent : inv.vendor_part = vendor}

\* runway_money.gather_context_node (without its write to _RECENT_INVOICES)
RunwayGatherContext(st, recent) ==
    LET ctx == st.event_context
        invoice_amount == Get(ctx, "amount", 0)
        vendor == Get(ctx, "vendor", "unknown")
        payment_status == Get(ctx, "status", "pending")
    IN [st EXCEPT !.analysis = [invoice_amount |-> invoice_amount,
                                vendor |-> vendor,
                                payment_status |-> payment_status,
                                is_duplicate |-> get_recent_invoices(recent, vendor) # {},
                                reasoning |-> "Invoice from vendor",
                                context_summary |-> "invoice from vendor"],
                  !.urgency = IF payment_status = "failed" THEN "high" ELSE "medium",
                  !.status = "context_gathered"]

\* runway_money.draft_action_node
RunwayDraftAction(st) ==
    LET failed == st.analysis.payment_status = "failed"
        action_type == IF failed THEN "card_update_email" ELSE "investigate"
    IN [st EXCEPT !.draft_action = [action_type |-> action_type,
                                    payload |-> Some(action_type)],
                  !.confidence = IF failed THEN 90 ELSE 70,
                  !.status = "action_drafted"]

\* activity_change as the fraction num/den of a percentage, den > 0
ActivityChange(activity_count, previous_count) ==
    IF previous_count > 0
    THEN [num |-> (activity_count - previous_count) * 100, den |-> previous_count]
    ELSE [num |-> 100, den |-> 1]

\* change <= pct and change >= pct on that fraction
ChangeAtMost(change, pct) == change.num <= pct * change.den
ChangeAtLeast(change, pct) == change.num >= pct * change.den

\* team_pulse.gather_context_node
TeamGatherContext(st) ==
    LET ctx == st.event_context
        activity_count == Get(ctx, "activity_count", 0)
        previous_count == Get(ctx, "previous_count", 0)
        activity_change == ActivityChange(activity_count, previous_count)
    IN [st EXCEPT !.analysis = [activity_count |-> activity_count,
                                activity_change |-> activity_change,
                                reasoning |-> "Activity change",
                                context_summary |-> "activities vs baseline"],
                  !.urgency = IF ChangeAtMost(activity_change, -50) THEN "critical"
                              ELSE IF ChangeAtMost(activity_change, -30) THEN "high"
                              ELSE IF ChangeAtLeast(activity_change, 50) THEN "medium"
                              ELSE "low",
                  !.status = "context_gathered"]

\* team_pulse.draft_action_node
TeamDraftAction(st) ==
    LET change == st.analysis.activity_change
        action_type == IF ChangeAtMost(change, -50) THEN "calendar_invite"
                       ELSE IF ChangeAtMost(change, -30) THEN "sentiment_check"
                       ELSE "no_action"
    IN [st EXCEPT !.draft_action = [action_type |-> action_type,
                                    payload |-> Some(action_type)],
                  !.confidence = IF action_type = "calendar_invite" THEN 85
                                 ELSE IF action_type = "sentiment_check" THEN 80
                                 ELSE 90,
                  !.status = "action_drafted"]

\* the gather_context node of the graph create_vertical_agent_graph builds
gather_context(st, recent) ==
    CASE st.vertical = "release" -> ReleaseGatherContext(st)
      [] st.vertical = "customer_fire" -> CustomerGatherContext(st)
      [] st.vertical = "runway" -> RunwayGatherContext(st, recent)
      [] OTHER -> TeamGatherContext(st)

\* the draft_action node of that graph
draft_action(st) ==
    CASE st.vertical = "release" -> ReleaseDraftAction(st)
      [] st.vertical = "customer_fire" -> CustomerDraftAction(st)
      [] st.vertical = "runway" -> RunwayDraftAction(st)
      [] OTHER -> TeamDraftAction(st)

\* variant of should_continue_to_approval without the medium-confidence test
should_continue_high_only(st) ==
    IF st.error # ""
    THEN "error"
    ELSE IF st.urgency = "critical" /\ st.confidence >= 70 THEN "human_approval"
    ELSE IF st.confidence >= 85 THEN "human_approval"
    ELSE "error"

should_continue_to_approval(st) ==
    IF st.error # ""
    THEN "error"
    ELSE IF st.urgency = "critical" /\ st.confidence >= 70 THEN "human_approval"
    ELSE IF st.confidence >= 85 THEN "human_approval"
    ELSE IF st.confidence >= 50 THEN "human_approval"
    ELSE "error"

human_approval(st) ==
    [st EXCEPT !.status = "pending_approval", !.approval_required = TRUE]

\* the dict process_event returns; it has no urgency and no context_summary
ProcessEventResponse(st) ==
    [vertical |-> st.vertical,
     action_type |-> st.draft_action.action_type,
     payload |-> st.draft_action.payload,
     reasoning |-> st.analysis.reasoning,
     context_summary |-> "",
     confidence |-> st.confidence,
     urgency |-> "",
     status |-> st.status]

\* POST /process_event up to the start of the graph; a request with an
\* event_type is the create handler's fetch
ProcessEvent(event_type, event_context, urgency) ==
    /\ run.pc = "idle"
    /\ UNCHANGED <<proposals, now, requests, executeCalls, createStatus, events,
                   ingestStatus, auditLog, routed, listing, call>>
    /\ IF event_type = ""
       THEN /\ run' = [IdleRun(run.recent) EXCEPT !.http = 400]
            /\ UNCHANGED aiFetch
       ELSE /\ aiFetch' = [called |-> TRUE, result |-> Null]
            /\ run' = [pc |-> "gather_context",
                    http |-> 0,
                    event_type |-> event_type,
                    request_urgency |-> urgency,
                    state |-> [event_type |-> event_type,
                               vertical |-> route_to_vertical(StrArg(event_type)),
                               urgency |-> OrDefault(urgency, "low"),
                               status |-> "pending",
                               confidence |-> 0,
                               event_context |-> event_context,
                               analysis |-> Null,
                               draft_action |-> Null,
                               approval_required |-> FALSE,
                               error |-> ""],
                    visited |-> <<>>,
                    recent |-> run.recent]

\* The gather_context step of compiled.invoke.  The node builds its result
\* as XState(**state, analysis=..., urgency=..., status=...), and the state
\* process_event starts from already holds urgency and status: as printed the
\* call raises TypeError (a keyword given twice), while the documented runs
\* return the state with those keys replaced.  Both outcomes are taken.  The
\* runway node has recorded the invoice before it builds the result.
GatherContext(raised) ==
    /\ run.pc = "gather_context"
    /\ run' = [run EXCEPT
          !.state = IF raised THEN run.state ELSE gather_context(run.state, run.recent),
          !.recent = IF run.state.vertical = "runway"
                     THEN run.recent \cup {InvoiceId(run.state.event_context)}
                     ELSE run.recent,
          !.visited = Append(run.visited, "gather_context"),
          !.pc = IF raised THEN "raised" ELSE "draft_action"]
    /\ UNCHANGED <<proposals, now, requests, executeCalls, createStatus, events,
                   ingestStatus, auditLog, routed, listing, aiFetch, call>>

\* the draft_action node and the conditional edge that leaves it
DraftAction ==
    /\ run.pc = "draft_action"
    /\ LET st == draft_action(run.state) IN
       run' = [run EXCEPT
          !.state = st,
          !.visited = Append(run.visited, "draft_action"),
          !.pc = IF should_continue_to_approval(st) = "human_approval"
                 THEN "human_approval" ELSE "end"]
    /\ UNCHANGED <<proposals, now, requests, executeCalls, createStatus, events,
                   ingestStatus, auditLog, routed, listing, aiFetch, call>>

HumanApproval ==
    /\ run.pc = "human_approval"
    /\ run' = [run EXCEPT
          !.state = human_approval(run.state),
          !.visited = Append(run.visited, "human_approval"),
          !.pc = "end"]
    /\ UNCHANGED <<proposals, now, requests, executeCalls, createStatus, events,
                   ingestStatus, auditLog, routed, listing, aiFetch, call>>

\* process_event returns to the create handler that fetched it, which
\* stores the proposal
CreateFromPipeline ==
    /\ run.pc = "end"
    /\ CreateProposal(run.event_type, run.state.event_context, run.request_urgency,
                      TRUE, ProcessEventResponse(run.state))
    /\ run' = [IdleRun(run.recent) EXCEPT !.http = 200,
                                          !.event_type = run.event_type,
                                          !.state = Some(run.state),
                                          !.visited = run.visited]

\* compiled.invoke raised: process_event answers 500 and the create handler,
\* seeing res.ok false, answers 500 too
PipelineFailed ==
    /\ run.pc = "raised"
    /\ CreateProposal(run.event_type, run.state.event_context, run.request_urgency,
                      FALSE, AiResult("", ""))
    /\ run' = [IdleRun(run.recent) EXCEPT !.http = 500,
                                          !.event_type = run.event_type,
                                          !.state = Some(run.state),
                                          !.visited = run.visited]

NextPipeline ==
    \/ \E et \in PipelineEventTypes, ctx \in PipelineContexts, u \in {"", "high"} :
          ProcessEvent(et, ctx, u)
    \/ \E raised \in BOOLEAN : GatherContext(raised)
    \/ DraftAction
    \/ HumanApproval
    \/ CreateFromPipeline
    \/ PipelineFailed

SpecPipeline == Init /\ [][NextPipeline]_vars

\* the router called directly, and by process_event for events without
\* context
NextRouter ==
    \/ \E arg \in RouteArgs : RouteToVertical(arg)
    \/ \E et \in PipelineEventTypes : ProcessEvent(et, <<>>, "")
    \/ \E raised \in BOOLEAN : GatherContext(raised)
    \/ DraftAction
    \/ HumanApproval
    \/ CreateFromPipeline
    \/ PipelineFailed

SpecRouter == Init /\ [][NextRouter]_vars

\* ------------------------------------------------- listing and the Inbox
\* a stored row as the list endpoint serialises it
Row(i) ==
    [id |-> i, status |-> proposals[i].status, urgency |-> proposals[i].urgency,
     vertical |-> proposals[i].vertical, created_at |-> proposals[i].created_at]

\* s without its elements that fail keep
RECURSIVE SelectRows(_, _)
SelectRows(s, keep) ==
    IF s = <<>> THEN <<>>
    ELSE IF Head(s) \in keep THEN <<Head(s)>> \o SelectRows(Tail(s), keep)
    ELSE SelectRows(Tail(s), keep)

\* position of a urgency value in the order of the TEXT column it is stored in
TextOrder == [critical |-> 0, high |-> 1, low |-> 2, medium |-> 3]

\* orderBy [{urgency: "desc"}, {created_at: "desc"}]: negative when a comes
\* before b
OrderByCompare(a, b) ==
    IF a.urgency # b.urgency
    THEN TextOrder[b.urgency] - TextOrder[a.urgency]
    ELSE b.created_at - a.created_at

\* the Inbox comparator on created_at alone
InboxCompareByDate(a, b) ==
    b.created_at - a.created_at

\* the comparator of sortedProposals
InboxCompare(a, b) ==
    LET urgencyOrder == [critical |-> 0, high |-> 1, medium |-> 2, low |-> 3]
        urgencyDiff == urgencyOrder[a.urgency] - urgencyOrder[b.urgency]
    IN IF urgencyDiff # 0 THEN urgencyDiff ELSE b.created_at - a.created_at

\* the comparator a sort runs with: the database's or the component's
Compare(order, a, b) ==
    IF order = "orderBy" THEN OrderByCompare(a, b) ELSE InboxCompare(a, b)

\* a stable sort of s by the comparator of order
RECURSIVE InsertBy(_, _, _)
InsertBy(order, x, s) ==
    IF s = <<>> THEN <<x>>
    ELSE IF Compare(order, x, Head(s)) < 0 THEN <<x>> \o s
    ELSE <<Head(s)>> \o InsertBy(order, x, Tail(s))

RECURSIVE SortBy(_, _)
SortBy(order, s) ==
    IF s = <<>> THEN <<>>
    ELSE InsertBy(order, s[Len(s)], SortBy(order, SubSeq(s, 1, Len(s) - 1)))

\* rows offset+1 .. offset+limit of s
Page(s, limit, offset) ==
    SubSeq(s, offset + 1, IF offset + limit < Len(s) THEN offset + limit ELSE Len(s))

\* prisma.actionProposal.findMany of the list handler
FindMany(status, vertical, limit, offset) ==
    LET all == [i \in 1..Len(proposals) |-> Row(i)]
        where == {r \in {all[i] : i \in DOMAIN all} :
                     /\ status # "" => r.status = status
                     /\ vertical # "" => r.vertical = vertical}
    IN Page(SortBy("orderBy", SelectRows(all, where)), limit, offset)

\* filteredProposals then sortedProposals of the Inbox component
SortedProposals(inbox, selectedVertical, selectedStatus) ==
    LET filtered == {p \in {inbox[i] : i \in DOMAIN inbox} :
                        /\ selectedVertical = "all" \/ p.vertical = selectedVertical
                        /\ selectedStatus = "all" \/ p.status = selectedStatus}
    IN SortBy("sortedProposals", SelectRows(inbox, filtered))

\* what the Inbox card computes before it renders the Approve and Reject
\* buttons
showActions(proposal) == proposal.status = "pending_approval"

\* GET /api/actions
ListProposals(status, vertical, limit, offset) ==
    /\ listing' = [listing EXCEPT !.response = FindMany(status, vertical, limit, offset)]
    /\ UNCHANGED <<proposals, now, requests, executeCalls, createStatus, events,
                   ingestStatus, auditLog, routed, run, aiFetch, call>>

\* the Inbox mounted with initialProposals: the stored rows oldest first or
\* newest first
InboxMount(newestFirst) ==
    /\ Len(proposals) > 0
    /\ LET n == Len(proposals)
           initialProposals == [i \in 1..n |-> Row(IF newestFirst THEN n + 1 - i ELSE i)]
       IN listing' = [listing EXCEPT
              !.inbox = initialProposals,
              !.sorted = SortedProposals(initialProposals, listing.selectedVertical,
                                         listing.selectedStatus)]
    /\ UNCHANGED <<proposals, now, requests, executeCalls, createStatus, events,
                   ingestStatus, auditLog, routed, run, aiFetch, call>>

\* the Inbox mounted without initialProposals: fetchProposals
InboxFetch ==
    /\ listing.inbox = <<>>
    /\ LET data == FindMany("", "", 50, 0)
       IN listing' = [listing EXCEPT
              !.response = data,
              !.inbox = data,
              !.sorted = SortedProposals(data, listing.selectedVertical,
                                         listing.selectedStatus)]
    /\ UNCHANGED <<proposals, now, requests, executeCalls, createStatus, events,
                   ingestStatus, auditLog, routed, run, aiFetch, call>>

\* a filter tab is selected and the component renders again
InboxSelect(selectedVertical, selectedStatus) ==
    /\ listing' = [listing EXCEPT
          !.selectedVertical = selectedVertical,
          !.selectedStatus = selectedStatus,
          !.sorted = SortedProposals(listing.inbox, selectedVertical, selectedStatus)]
    /\ UNCHANGED <<proposals, now, requests, executeCalls, createStatus, events,
                   ingestStatus, auditLog, routed, run, aiFetch, call>>

NextList ==
    \/ \E u \in Urgencies, v \in {"runway", "release"} :
          CreateProposal("stripe.invoice", "acme_5000", u, TRUE, AiResult(v, "email"))
          /\ UNCHANGED run
    \/ \E status \in {"", "pending"}, vertical \in {"", "runway"},
          limit \in {1, 50}, offset \in {0, 1} :
          ListProposals(status, vertical, limit, offset)
    \/ \E newestFirst \in BOOLEAN : InboxMount(newestFirst)
    \/ InboxFetch
    \/ \E v \in {"all", "runway", "release"}, st \in {"all", "pending", "approved"} :
          InboxSelect(v, st)

SpecList == Init /\ [][NextList]_vars

\* ------------------------------------------------- SOP validation
\* An SOP document is a sequence of lines, each ended by a newline.  The
\* lines used: the trigger header alone and with text after it, a line of
\* plain text, the two other headers, and a bullet.
SopLines ==
    {"## Trigger", "## Trigger PR opened", "PR opened", "## Condition", "## Action",
     "- block PR"}

SopDocuments == UNION {[1..n -> SopLines] : n \in 0..MaxLines}

\* the header a line starts with, "" when it starts with none
LineHeader(line) ==
    CASE line \in {"## Trigger", "## Trigger PR opened"} -> "## Trigger"
      [] line = "## Condition" -> "## Condition"
      [] line = "## Action" -> "## Action"
      [] OTHER -> ""

\* re.split(r"(## Trigger\s*\n)", content) with every piece stripped and the
\* empty pieces skipped: the pieces between trigger header lines, and the
\* header lines themselves
RECURSIVE SplitSections(_, _)
SplitSections(lines, piece) ==
    LET done == IF piece = <<>> THEN <<>> ELSE <<piece>>
    IN IF lines = <<>> THEN done
       ELSE IF Head(lines) = "## Trigger"
       THEN done \o <<<<"## Trigger">>>> \o SplitSections(Tail(lines), <<>>)
       ELSE SplitSections(Tail(lines), Append(piece, Head(lines)))

\* section.replace("## Trigger", "").strip(): the text left, "" as <<>>
RECURSIVE TriggerText(_)
TriggerText(section) ==
    IF section = <<>> THEN <<>>
    ELSE IF Head(section) = "## Trigger" THEN TriggerText(Tail(section))
    ELSE IF Head(section) = "## Trigger PR opened"
    THEN <<"PR opened">> \o TriggerText(Tail(section))
    ELSE <<Head(section)>> \o TriggerText(Tail(section))

\* _extract_list_items
RECURSIVE extract_list_items(_)
extract_list_items(section) ==
    IF section = <<>> THEN <<>>
    ELSE IF Head(section) = "- block PR"
    THEN <<"block PR">> \o extract_list_items(Tail(section))
    ELSE extract_list_items(Tail(section))

\* rules.append(SOPRule(...)) under its guard
SaveRule(acc) ==
    IF acc.trigger # <<>> /\ (acc.conditions # <<>> \/ acc.actions # <<>>)
    THEN Append(acc.rules, [trigger |-> acc.trigger, conditions |-> acc.conditions,
                            actions |-> acc.actions, severity |-> "block"])
    ELSE acc.rules

\* the loop of _parse_sops over the sections
RECURSIVE ParseSections(_, _)
ParseSections(sections, acc) ==
    IF sections = <<>> THEN acc
    ELSE LET section == Head(sections)
             header == LineHeader(Head(section))
             next == IF header = "## Trigger"
                     THEN [rules |-> SaveRule(acc), trigger |-> TriggerText(section),
                           conditions |-> <<>>, actions |-> <<>>]
                     ELSE IF header = "## Condition"
                     THEN [acc EXCEPT !.conditions = extract_list_items(section)]
                     ELSE IF header = "## Action"
                     THEN [acc EXCEPT !.actions = extract_list_items(section)]
                     ELSE acc
         IN ParseSections(Tail(sections), next)

parse_sops(content) ==
    SaveRule(ParseSections(SplitSections(content, <<>>),
                           [rules |-> <<>>, trigger |-> <<>>, conditions |-> <<>>,
                            actions |-> <<>>]))

\* section in content
HasSection(content, section) ==
    \E i \in DOMAIN content : LineHeader(content[i]) = section

validate_sop(content) ==
    IF \E section \in {"## Trigger", "## Condition", "## Action"} :
          ~HasSection(content, section)
    THEN [raised |-> TRUE, rules |-> <<>>]
    ELSE LET rules == parse_sops(content)
         IN IF rules = <<>> THEN [raised |-> TRUE, rules |-> <<>>]
            ELSE [raised |-> FALSE, rules |-> rules]

\* a caller holding a document applies validate_sop
ValidateSop ==
    /\ call.fn = ""
    /\ call.arg # Null
    /\ call' = [call EXCEPT !.fn = "validate_sop",
                            !.result = Some(validate_sop(call.arg[1]))]
    /\ UNCHANGED <<proposals, now, requests, executeCalls, createStatus, events,
                   ingestStatus, auditLog, routed, run, listing, aiFetch>>

InitSop ==
    /\ proposals = <<>>
    /\ now = 1
    /\ requests = [r \in RequestIds |-> IdleRequest]
    /\ executeCalls = <<>>
    /\ createStatus = 0
    /\ events = <<>>
    /\ ingestStatus = 0
    /\ auditLog = <<>>
    /\ routed = [arg |-> Null, vertical |-> ""]
    /\ run = IdleRun({})
    /\ listing = IdleListing
    /\ aiFetch = NoFetch
    /\ \E content \in SopDocuments : call = [NoCall EXCEPT !.arg = Some(content)]

SpecSop == InitSop /\ [][ValidateSop]_vars

\* ------------------------------------------------- the conditional edge alone
\* the keys of a state that should_continue_to_approval reads; error "" is a
\* state without an error
EdgeConfidences == {0, 25, 49, 50, 60, 69, 70, 84, 85, 100}
EdgeStates ==
    [urgency : Urgencies, confidence : EdgeConfidences, error : {"", "draft failed"}]

\* a caller holding a state applies should_continue_to_approval
ShouldContinue ==
    /\ call.fn = ""
    /\ call.arg # Null
    /\ call' = [call EXCEPT !.fn = "should_continue_to_approval",
                            !.result = Some(should_continue_to_approval(call.arg[1]))]
    /\ UNCHANGED <<proposals, now, requests, executeCalls, createStatus, events,
                   ingestStatus, auditLog, routed, run, listing, aiFetch>>

InitEdge ==
    /\ proposals = <<>>
    /\ now = 1
    /\ requests = [r \in RequestIds |-> IdleRequest]
    /\ executeCalls = <<>>
    /\ createStatus = 0
    /\ events = <<>>
    /\ ingestStatus = 0
    /\ auditLog = <<>>
    /\ routed = [arg |-> Null, vertical |-> ""]
    /\ run = IdleRun({})
    /\ listing = IdleListing
    /\ aiFetch = NoFetch
    /\ \E st \in EdgeStates : call = [NoCall EXCEPT !.arg = Some(st)]

SpecEdge == InitEdge /\ [][ShouldContinue]_vars

\* ================================================================ claims
Stored == 1..Len(proposals)

\* number of /execute_action calls in calls that name proposal id
ExecuteCount(calls, id) ==
    Cardinality({i \in DOMAIN calls : calls[i].proposal_id = id})

\* requests of the given kind on proposal id that returned 200
Succeeded(kind, id) ==
    {r \in RequestIds : /\ requests[r].kind = kind
                        /\ requests[r].id = id
                        /\ requests[r].pc = "done"
                        /\ requests[r].status = 200}

\* C1: every /execute_action call names a stored proposal whose approved
\* update has been written (approved_at is set only by that update); no call
\* exists for a proposal that was never written as approved.
C1_NoUnapprovedExecution ==
    \A i \in DOMAIN executeCalls :
        /\ executeCalls[i].proposal_id \in Stored
        /\ proposals[executeCalls[i].proposal_id].approved_at # Null

C1_Witness ==
    \E i \in DOMAIN executeCalls :
        /\ executeCalls[i].proposal_id \in Stored
        /\ proposals[executeCalls[i].proposal_id].status = "approved"

\* C2: of the approve requests on one proposal at most one returns 200 and
\* at most one execution call is issued for the proposal.
C2_SingleApproval ==
    \A id \in Stored :
        /\ Cardinality(Succeeded("approve", id)) <= 1
        /\ ExecuteCount(executeCalls, id) <= 1

\* C3: no proposal has both an approve request and a reject request that
\* returned 200.
C3_ApproveRejectExclusive ==
    \A id \in Stored :
        Succeeded("approve", id) = {} \/ Succeeded("reject", id) = {}

\* C4: an approve request that reads the proposal after another approve
\* request on it has completed with 200 changes no field of any proposal,
\* issues no execution call and ends with the 400 response.
C4_SecondApproveNoOp ==
    [][\A r \in RequestIds :
          (/\ requests[r].pc = "idle"
           /\ requests'[r].kind = "approve"
           /\ Succeeded("approve", requests'[r].id) # {})
          => (/\ proposals' = proposals
              /\ executeCalls' = executeCalls
              /\ requests'[r].pc = "done"
              /\ requests'[r].status = 400)]_vars

C4_Witness ==
    \E r, q \in RequestIds :
        /\ q \in Succeeded("approve", requests[r].id)
        /\ requests[r].kind = "approve"
        /\ requests[r].pc = "done"
        /\ requests[r].status = 400
        /\ proposals[requests[r].id].status = "approved"
        /\ ExecuteCount(executeCalls, requests[r].id) = 1

\* C5: an approve or reject request that finds its proposal in a status
\* other than pending or pending_approval ends at once with an error
\* response, and that step changes no proposal and issues no execution call.
C5_InvalidStateRefused ==
    [][\A r \in RequestIds :
          (/\ requests[r].pc = "idle"
           /\ requests'[r].pc # "idle"
           /\ requests'[r].id \in Stored
           /\ proposals[requests'[r].id].status \notin {"pending", "pending_approval"})
          => (/\ requests'[r].pc = "done"
              /\ requests'[r].status >= 400
              /\ proposals' = proposals
              /\ executeCalls' = executeCalls)]_vars

C5_Witness ==
    \E r \in RequestIds :
        /\ requests[r].kind = "reject"
        /\ requests[r].pc = "done"
        /\ requests[r].status = 400
        /\ requests[r].id \in Stored
        /\ proposals[requests[r].id].status \in {"approved", "rejected"}

\* C6: once a proposal's stored status is rejected or executed, no step
\* changes that status.
C6_TerminalStatus ==
    [][\A id \in Stored :
          proposals[id].status \in {"rejected", "executed"}
          => proposals'[id].status = proposals[id].status]_vars

\* C7: approved_at is set only with status approved or executed, and
\* executed_at only with status executed and approved_at set.
C7_TimestampsFollowStatus ==
    \A id \in Stored :
        /\ proposals[id].approved_at # Null
           => proposals[id].status \in {"approved", "executed"}
        /\ proposals[id].executed_at # Null
           => (proposals[id].status = "executed" /\ proposals[id].approved_at # Null)

\* C8: the Event table never holds two rows with the same source and the
\* same non-null external_id.
C8_EventDedup ==
    \A i, j \in DOMAIN events :
        (/\ i # j
         /\ events[i].external_id # Null
         /\ events[i].source = events[j].source
         /\ events[i].external_id = events[j].external_id) => FALSE

\* C9: at most one proposal in status pending or pending_approval exists
\* for one vertical and natural key among proposals created within the
\* suppression window of each other.
C9_OneActiveProposal ==
    \A i, j \in Stored :
        (/\ i # j
         /\ proposals[i].vertical = proposals[j].vertical
         /\ proposals[i].payload = proposals[j].payload
         /\ proposals[j].created_at - proposals[i].created_at \in 0..SuppressionWindow
         /\ proposals[i].status \in {"pending", "pending_approval"}
         /\ proposals[j].status \in {"pending", "pending_approval"}) => FALSE

\* C10: the reject update sets status rejected and stores the given reason,
\* and once a proposal carries a rejection_reason no execution call is
\* issued for it.
C10_RejectedNeverExecuted ==
    [][/\ \A r \in RequestIds :
            (/\ requests[r].kind = "reject"
             /\ requests[r].pc = "update"
             /\ requests'[r].pc = "done")
            => (/\ proposals'[requests[r].id].status = "rejected"
                /\ requests[r].rejection_reason # ""
                   => proposals'[requests[r].id].rejection_reason
                          = Some(requests[r].rejection_reason))
       /\ \A id \in Stored :
            proposals[id].rejection_reason # Null
            => ExecuteCount(executeCalls', id) = ExecuteCount(executeCalls, id)]_vars

\* C11: every step that changes a proposal's status appends exactly one
\* AuditLog row naming that proposal, and no step modifies or removes the
\* rows already in the AuditLog.
C11_AuditEveryTransition ==
    [][/\ Len(auditLog') >= Len(auditLog)
       /\ SubSeq(auditLog', 1, Len(auditLog)) = auditLog
       /\ \A id \in Stored :
            proposals'[id].status # proposals[id].status
            => (/\ Len(auditLog') = Len(auditLog) + 1
                /\ auditLog'[Len(auditLog')].entity_id = id)]_vars

\* C12: a proposal that is approved and for which an /execute_action call
\* completed without throwing eventually has status executed with
\* executed_at set.
C12_EventuallyExecuted ==
    \A id \in ProposalIds :
        (/\ id \in Stored
         /\ proposals[id].status = "approved"
         /\ \E i \in DOMAIN executeCalls :
               executeCalls[i].proposal_id = id /\ ~executeCalls[i].threw)
        ~> (/\ id \in Stored
            /\ proposals[id].status = "executed"
            /\ proposals[id].executed_at # Null)

\* C13: every execution call carries an idempotency key that is a function
\* of the proposal id alone (so a retry for the same proposal carries the
\* same key), and for one key at most one call reaches the external side
\* effect.
C13_IdempotentExecution ==
    /\ \A i \in DOMAIN executeCalls :
          executeCalls[i].idempotency_key = Some(executeCalls[i].proposal_id)
    /\ \A i, j \in DOMAIN executeCalls :
          (/\ i # j
           /\ executeCalls[i].idempotency_key = executeCalls[j].idempotency_key
           /\ ~executeCalls[i].threw
           /\ ~executeCalls[j].threw) => FALSE

\* C14: whatever argument route_to_vertical is applied to, its result is
\* one of the four vertical ids: the table's vertical when the event type is
\* a key of the table and team_pulse (the default) otherwise.
C14_RouterTotal ==
    routed.arg # Null =>
        LET arg == routed.arg[1]
            event_type == IF arg.isdict
                          THEN (IF "event_type" \in DOMAIN arg.value
                                THEN arg.value["event_type"] ELSE "")
                          ELSE arg.value
        IN /\ routed.vertical \in Verticals
           /\ event_type \in DOMAIN EVENT_TO_VERTICAL
              => routed.vertical = EVENT_TO_VERTICAL[event_type]
           /\ event_type \notin DOMAIN EVENT_TO_VERTICAL
              => routed.vertical = "team_pulse"

C14_Witness ==
    /\ routed.arg # Null
    /\ routed.arg[1].isdict
    /\ "event_type" \notin DOMAIN routed.arg[1].value
    /\ routed.vertical = "team_pulse"

\* a run of the pipeline that returned its result and went through to the
\* create handler's response
RunCompleted == run.pc = "idle" /\ run.state # Null /\ run.http = 200

\* C15: a completed run for an event type the table does not map went to
\* the default vertical, drafted with confidence below 0.5, was handed to
\* human approval, and its proposal was stored (the create handler answered
\* 201).
C15_UnmappedEscalates ==
    (RunCompleted /\ run.event_type \notin DOMAIN EVENT_TO_VERTICAL) =>
        /\ run.state[1].vertical = "team_pulse"
        /\ run.state[1].confidence < 50
        /\ run.state[1].status = "pending_approval"
        /\ createStatus = 201

\* C16: a completed run for stripe.payment_failed with context
\* {amount: 5000, customer_tier: "enterprise"} went to runway, drafted
\* card_update_email with confidence at least 0.85, and the proposal it
\* stored has status pending_approval and urgency high.
C16_PaymentFailedScenario ==
    (/\ RunCompleted
     /\ run.event_type = "stripe.payment_failed"
     /\ run.state[1].event_context
            = ("amount" :> 5000 @@ "customer_tier" :> "enterprise")) =>
        /\ run.state[1].vertical = "runway"
        /\ run.state[1].draft_action.action_type = "card_update_email"
        /\ run.state[1].confidence >= 85
        /\ createStatus = 201
        /\ Len(proposals) > 0
        /\ proposals[Len(proposals)].status = "pending_approval"
        /\ proposals[Len(proposals)].urgency = "high"

\* the context fields a vertical's gather_context reads with a default
ReadFields(st) ==
    CASE st.vertical = "release" ->
            IF HasSentry(st.event_type) THEN {"error_count", "affected_users"} ELSE {}
      [] st.vertical = "customer_fire" -> {"customer_tier", "mrr", "churn_score", "priority"}
      [] st.vertical = "runway" -> {"amount", "vendor", "status"}
      [] OTHER -> {"activity_count", "previous_count"}

Defaulted(st) == \E f \in ReadFields(st) : f \notin DOMAIN st.event_context

\* C17: once draft_action has run, a state in which a read context field
\* was defaulted carries a confidence below 0.85.
C17_DefaultedLowConfidence ==
    (run.pc \in {"human_approval", "end"} /\ Defaulted(run.state)) =>
        run.state.confidence < 85

\* rank of an urgency, critical first
UrgencyRank(u) ==
    CASE u = "critical" -> 0 [] u = "high" -> 1 [] u = "medium" -> 2 [] OTHER -> 3

\* s runs from critical to low, newest first within one urgency
ListedInOrder(s) ==
    \A i, j \in DOMAIN s :
        i < j => \/ UrgencyRank(s[i].urgency) < UrgencyRank(s[j].urgency)
                 \/ /\ s[i].urgency = s[j].urgency
                    /\ s[i].created_at >= s[j].created_at

\* C18: the list GET /api/actions returned runs from critical through
\* high and medium to low, and from newest to oldest within one urgency.
C18_ListOrdered == ListedInOrder(listing.response)

C20_CreatedPending ==
    \A i \in DOMAIN proposals :
        /\ proposals[i].status = "pending"
        /\ proposals[i].approved_at = Null
        /\ proposals[i].executed_at = Null
        /\ proposals[i].approver_id = Null
        /\ proposals[i].rejection_reason = Null

\* a row was written from a pipeline result that carried status approved and
\* urgency critical
C20_Witness ==
    \E i \in DOMAIN proposals :
        /\ proposals[i].vertical = "release"
        /\ proposals[i].urgency = "critical"
        /\ proposals[i].status = "pending"

C22_NoSilentDrop ==
    aiFetch.called => (createStatus = 201 /\ Len(proposals) > 0)

\* a document holds a rule: a trigger header, its text on the next line, and
\* further down, before any other trigger header, a bullet under a Condition
\* or Action header
HoldsRule(content) ==
    \E i, j, k \in DOMAIN content :
        /\ i + 1 < j /\ j < k
        /\ content[i] = "## Trigger"
        /\ content[i + 1] = "PR opened"
        /\ content[j] \in {"## Condition", "## Action"}
        /\ content[k] = "- block PR"
        /\ \A m \in (i + 1)..k : LineHeader(content[m]) # "## Trigger"

C24_FailedExecutionKeepsApproval ==
    [][\A r \in RequestIds :
          (/\ requests[r].pc = "execute"
           /\ requests'[r] # requests[r]
           /\ Len(executeCalls') > Len(executeCalls)
           /\ executeCalls'[Len(executeCalls')].threw) =>
              /\ proposals' = proposals
              /\ proposals'[requests[r].id].approved_at # Null
              /\ proposals'[requests[r].id].approver_id # Null
              /\ requests'[r].pc = "done"
              /\ requests'[r].status = 200
              /\ Len(executeCalls') = Len(executeCalls) + 1]_vars

\* an approve request was answered 200 after its execution call threw, and
\* the proposal is approved
C24_Witness ==
    \E r \in RequestIds, i \in DOMAIN executeCalls :
        /\ requests[r].kind = "approve"
        /\ requests[r].pc = "done"
        /\ requests[r].status = 200
        /\ executeCalls[i].threw
        /\ executeCalls[i].proposal_id = requests[r].id
        /\ ExecuteCount(executeCalls, requests[r].id) = 1
        /\ proposals[requests[r].id].status = "approved"
        /\ proposals[requests[r].id].approved_at # Null

\* C25: every approve request answered 200 has made exactly one execution
\* call for its proposal, whatever the proposal's action_type.
C25_ApproveExecutesOnce ==
    \A id \in Stored :
        ExecuteCount(executeCalls, id) = Cardinality(Succeeded("approve", id))

RunEnded == run.pc \in {"end", "raised"} \/ (run.pc = "idle" /\ run.state # Null)

\* the state a run that has ended finished with
EndState == IF run.pc = "idle" THEN run.state[1] ELSE run.state

\* C27: the stages a run has executed are gather_context, draft_action,
\* human_approval in that order, each at most once; a run that has ended
\* executed gather_context and draft_action and either passed human_approval
\* and holds status pending_approval with approval_required, or stopped
\* after draft_action; its status is never approved or executed.
C27_StagesInOrder ==
    LET order == <<"gather_context", "draft_action", "human_approval">>
    IN /\ Len(run.visited) <= 3
       /\ run.visited = SubSeq(order, 1, Len(run.visited))
       /\ RunEnded =>
             /\ Len(run.visited) >= 2
             /\ EndState.status \notin {"approved", "executed"}
             /\ Len(run.visited) = 3 =>
                   (EndState.status = "pending_approval" /\ EndState.approval_required)

\* C28: a gather_context step leaves _RECENT_INVOICES as it was, and the
\* state it returns depends on its input state alone: it is the state the
\* node returns when nothing has run before.
C28_GatherDeterministic ==
    [][run.pc = "gather_context" =>
          /\ run'.recent = run.recent
          /\ run'.pc = "draft_action" => run'.state = gather_context(run.state, {})]_vars

\* C29: the row a create request stored carries the confidence of the
\* answer the AI service gave to that request, 0 included.
C29_ConfidencePreserved ==
    (createStatus = 201 /\ aiFetch.result # Null) =>
        proposals[Len(proposals)].confidence = aiFetch.result[1].confidence

\* C30: every proposal the Inbox displays gets the Approve and Reject
\* buttons exactly when the approve and reject handlers would accept it
\* (status pending or pending_approval).
C30_ButtonsMatchGateway ==
    \A i \in DOMAIN listing.sorted :
        showActions(listing.sorted[i]) <=> CanDecide(listing.sorted[i].status)

====
